---- MODULE Spec2Model ----
(***************************************************************************)
(* A model of the TFmini Plus lidar driver (src/src/TFmini_plus.cpp).      *)
(*                                                                         *)
(* Bytes are naturals 0..255, buffers are sequences; At(buf, i) is the C   *)
(* expression buf[i] (zero-based).                                         *)
(***************************************************************************)
EXTENDS Naturals, Sequences, FiniteSets

\* ------------------------------------------------------------ constants

\* TFmini_plus.h:7 (FRAME_START = 0x5A).
TFMINI_PLUS_FRAME_START == 90
\* 0x59: the marker that starts a data frame (two of them in a row).
TFMINI_PLUS_RESPONSE_FRAME_HEADER == 89
TFMINI_PLUS_PACKET_POS_LENGTH == 1
TFMINI_PLUS_PACKET_POS_COMMAND == 2
\* header + length + command + checksum.
TFMINI_PLUS_MINIMUM_PACKET_SIZE == 4

\* enum TFMINI_PLUS_COMMANDS
TFMINI_PLUS_GET_DATA == 0
TFMINI_PLUS_GET_VERSION == 1
TFMINI_PLUS_SYSTEM_RESET == 2
TFMINI_PLUS_SET_FRAME_RATE == 3
TFMINI_PLUS_TRIGGER_DETECTION == 4
TFMINI_PLUS_SET_OUTPUT_FORMAT == 5
TFMINI_PLUS_SET_BAUD_RATE == 6
TFMINI_PLUS_ENABLE_DATA_OUTPUT == 7
TFMINI_PLUS_SET_COMMUNICATION_INTERFACE == 10
TFMINI_PLUS_SET_I2C_ADDRESS == 11
TFMINI_PLUS_SET_IO_MODE == 59
TFMINI_PLUS_RESTORE_FACTORY_SETTINGS == 16
TFMINI_PLUS_SAVE_SETTINGS == 17

\* enum TFMINI_PLUS_COMMUNICATION_MODE
TFMINI_PLUS_UART == 0
TFMINI_PLUS_I2C == 1

\* Packet lengths: 4 plus the number of argument (payload) bytes the code
\* of each operation writes or reads.
TFMINI_PLUS_PACK_LENGTH_GET_DATA == 5
TFMINI_PLUS_PACK_LENGTH_SET_FRAME_RATE == 6
TFMINI_PLUS_PACK_LENGTH_SET_OUTPUT_FORMAT == 5
TFMINI_PLUS_PACK_LENGTH_SET_BAUD_RATE == 8
TFMINI_PLUS_PACK_LENGTH_ENABLE_DATA_OUTPUT == 5
TFMINI_PLUS_PACK_LENGTH_SET_COMMUNICATION_INTERFACE == 5
TFMINI_PLUS_PACK_LENGTH_SET_IO_MODE == 9
TFMINI_PLUS_PACK_LENGTH_SET_I2C_ADDRESS == 5
TFMINI_PLUS_PACK_LENGTH_VERSION_RESPONSE == 7
TFMINI_PLUS_PACK_LENGTH_DATA_RESPONSE == 9
TFMINI_PLUS_PACK_LENGTH_SAVE_SETTINGS_RESPONSE == 5
TFMINI_PLUS_PACK_LENGTH_SYSTEM_RESET_RESPONSE == 5
TFMINI_PLUS_PACK_LENGTH_RESTORE_FACTORY_SETTINGS_RESPONSE == 5

\* ------------------------------------------------------------ bytes

\* buf[i] of the C code.
At(buf, i) == buf[i + 1]

\* The first n elements of a buffer (all of it when it is shorter).
Take(buf, n) == SubSeq(buf, 1, IF n < Len(buf) THEN n ELSE Len(buf))

\* A buffer without its first n elements.
Drop(buf, n) == SubSeq(buf, n + 1, Len(buf))

\* uint8_t(x)
U8(x) == x % 256

\* x >> k on a non-negative value.
Shr(x, k) == x \div (2 ^ k)

\* ------------------------------------------------------------ checksum

\* checksum += data[i] for i = 0 .. n-1, in uint8_t arithmetic.
RECURSIVE SumBytes(_, _)
SumBytes(data, n) ==
    IF n = 0 THEN 0 ELSE U8(SumBytes(data, n - 1) + At(data, n - 1))

\* The loop runs while i < (size - 1): it adds the bytes at offsets
\* 0 .. size-2.  Every caller passes size >= 3; size = 0 makes the bound
\* (size_t)(-1) and is not covered by this operator.
calculate_checksum(data, size) == SumBytes(data, size - 1)

compare_checksum(data, size) ==
    LET checksum == calculate_checksum(data, size - 1)
        checksums_match == checksum = At(data, size - 1)
    IN  checksums_match

\* The largest value of size_t on the 8-bit boards the library is written
\* for (16 bits).
SIZE_MAX == 65535

\* The bound of the loop of calculate_checksum: size - 1 is computed in int
\* and converted to size_t for the comparison with i, so size = 0 gives
\* SIZE_MAX and not -1.
checksum_loop_bound(size) == IF size = 0 THEN SIZE_MAX ELSE size - 1

\* ------------------------------------------------------------ transmit

\* What the transport did with a write of `size` bytes: `written` is the
\* count Stream::write / Wire.write returned, `status` the value of
\* Wire.endTransmission() (0: success, non-zero: an error such as a NACK).
\* The write went through when every byte was written and, on the bus, the
\* transaction ended with status 0.
transmitted(mode, written, status, size) ==
    /\ written = size
    /\ (mode = TFMINI_PLUS_I2C => status = 0)

\* uint8_t bytes_sent = (write(...) == size); return bytes_sent == size;
send_uart(written, size) ==
    LET bytes_sent == IF written = size THEN 1 ELSE 0
    IN  bytes_sent = size

\* bool acknowledged = Wire.endTransmission();
send_i2c(written, status, size) ==
    LET bytes_sent == U8(written)
        acknowledged == status # 0
    IN  bytes_sent = size /\ acknowledged

send(mode, written, status, size) ==
    LET r0 == FALSE
        r1 == IF mode = TFMINI_PLUS_UART THEN send_uart(written, size) ELSE r0
        r2 == IF mode = TFMINI_PLUS_I2C THEN send_i2c(written, status, size) ELSE r1
    IN  r2

\* A variant of command_packet that writes the number of argument bytes
\* into the length byte (size - TFMINI_PLUS_MINIMUM_PACKET_SIZE for size).
command_packet_argument_count(command, arguments, size) ==
    LET filled == [i \in 1..(size - 1) |->
                     IF i = 1 THEN TFMINI_PLUS_FRAME_START
                     ELSE IF i = 2 THEN size - TFMINI_PLUS_MINIMUM_PACKET_SIZE
                     ELSE IF i = 3 THEN command
                     ELSE arguments[i - (TFMINI_PLUS_MINIMUM_PACKET_SIZE - 1)]]
    IN  Append(filled, calculate_checksum(filled, size - 1))

\* A variant of command_packet whose checksum call passes size instead of
\* size - 1, so that the sum runs over every byte before the checksum.
command_packet_sum_to_size(command, arguments, size) ==
    LET filled == [i \in 1..(size - 1) |->
                     IF i = 1 THEN TFMINI_PLUS_FRAME_START
                     ELSE IF i = 2 THEN size
                     ELSE IF i = 3 THEN command
                     ELSE arguments[i - (TFMINI_PLUS_MINIMUM_PACKET_SIZE - 1)]]
    IN  Append(filled, calculate_checksum(Append(filled, 0), size))

\* The local `packet` of send_command, as handed to send(): header, size,
\* command, the size-4 argument bytes, and the checksum over size-1.
command_packet(command, arguments, size) ==
    LET filled == [i \in 1..(size - 1) |->
                     IF i = 1 THEN TFMINI_PLUS_FRAME_START
                     ELSE IF i = 2 THEN size
                     ELSE IF i = 3 THEN command
                     ELSE arguments[i - (TFMINI_PLUS_MINIMUM_PACKET_SIZE - 1)]]
    IN  Append(filled, calculate_checksum(filled, size - 1))

\* ------------------------------------------------------------ receive

\* Stream::readBytes(buffer, size) on a stream whose receive buffer holds rx
\* and on which the bytes of wire arrive before the read times out: the
\* first `size` bytes of rx \o wire are taken (fewer when there are fewer).
readBytes(rx_, wire_, size) ==
    LET all == rx_ \o wire_
        got == Take(all, size)
        k == Len(got)
    IN  [bytes |-> got,
         rx |-> Drop(rx_, k),
         wire |-> IF k > Len(rx_) THEN Drop(wire_, k - Len(rx_)) ELSE wire_]

receive_uart(rx_, wire_, size) ==
    LET rd == readBytes(rx_, wire_, size)
        bytes_read == Len(rd.bytes)
    IN  [result |-> bytes_read = size, output |-> rd.bytes,
         rx |-> rd.rx, wire |-> rd.wire]

\* Wire.requestFrom(_address, size) makes the bytes the device supplies
\* (bus, at most size of them) available; the loop copies them.
receive_i2c(bus, rx_, wire_, size) ==
    LET got == Take(bus, size)
        bytes_read == Len(got)
    IN  [result |-> bytes_read = size, output |-> got,
         rx |-> rx_, wire |-> wire_]

\* receive: read from the transport of the mode; a full read is valid when
\* the length byte is the size and compare_checksum accepts the buffer.
receive(mode, bus, rx_, wire_, size) ==
    LET none == [result |-> FALSE, output |-> <<>>, rx |-> rx_, wire |-> wire_]
        r1 == IF mode = TFMINI_PLUS_UART THEN receive_uart(rx_, wire_, size) ELSE none
        r2 == IF mode = TFMINI_PLUS_I2C THEN receive_i2c(bus, rx_, wire_, size) ELSE r1
        valid == /\ size = At(r2.output, TFMINI_PLUS_PACKET_POS_LENGTH)
                 /\ compare_checksum(r2.output, size)
    IN  [r2 EXCEPT !.result = IF r2.result THEN valid ELSE FALSE]

\* The header search of uart_receive_data over the bytes available() counts
\* (the receive buffer): one read(), and a second read() only after a 0x59.
\* A read() on an empty buffer returns -1 and consumes nothing.
RECURSIVE find_packet_start(_)
find_packet_start(buf) ==
    IF buf = <<>> THEN [found |-> FALSE, rest |-> buf]
    ELSE IF Head(buf) # TFMINI_PLUS_RESPONSE_FRAME_HEADER
         THEN find_packet_start(Tail(buf))
    ELSE IF Len(buf) = 1 THEN [found |-> FALSE, rest |-> <<>>]
    ELSE IF buf[2] = TFMINI_PLUS_RESPONSE_FRAME_HEADER
         THEN [found |-> TRUE, rest |-> Drop(buf, 2)]
    ELSE find_packet_start(Drop(buf, 2))

\* uninit is what the cells of the caller's buffer hold that are never
\* written (the buffer is an uninitialised local of the caller).
uart_receive_data(rx_, wire_, size, uninit) ==
    LET scan == find_packet_start(rx_)
        head == IF scan.found
                THEN <<TFMINI_PLUS_RESPONSE_FRAME_HEADER, TFMINI_PLUS_RESPONSE_FRAME_HEADER>>
                ELSE <<uninit, uninit>>
        rd == readBytes(scan.rest, wire_, size - 2)
        bytes_read == U8(Len(rd.bytes) + 2)
        pad == [i \in 1..(size - 2 - Len(rd.bytes)) |-> uninit]
    IN  [result |-> bytes_read = size, output |-> head \o rd.bytes \o pad,
         rx |-> rd.rx, wire |-> rd.wire, found |-> scan.found]

\* ------------------------------------------------------------ events

\* What an operation did on the transport is recorded as a sequence of
\* events.  write: bytes is the packet handed to send(), ok whether the
\* transport wrote it all (and the bus acknowledged), res what send()
\* returned.  read: bytes is the caller's buffer after the read, n the size
\* asked for, ok whether all n bytes were delivered, res what the receive
\* routine returned.  delay: n milliseconds.
WriteEv(mode, packet, written, status, size) ==
    [ev |-> "write", bytes |-> packet, n |-> size,
     ok |-> transmitted(mode, written, status, size),
     res |-> send(mode, written, status, size)]

ReadEv(r, size, delivered) ==
    [ev |-> "read", bytes |-> r.output, n |-> size, ok |-> delivered,
     res |-> r.result]

DelayEv == [ev |-> "delay", bytes |-> << >>, n |-> 100, ok |-> TRUE, res |-> TRUE]

\* A variant of do_i2c_wait without the test of the mode.
do_i2c_wait_any_mode(mode) == << DelayEv >>

\* delay(100) in bus mode only; the sequence of delays the call inserts.
do_i2c_wait(mode) ==
    IF mode = TFMINI_PLUS_I2C THEN << DelayEv >> ELSE << >>

\* ------------------------------------------------------------ state

VARIABLES
    communications_mode,  \* _communications_mode
    address,              \* _address
    rx,                   \* the stream's receive buffer (what available() counts)
    wire,                 \* bytes that arrive on the stream before a read times out
    op,                   \* the last operation called
    arg,                  \* its arguments
    ret,                  \* the boolean it returned
    log,                  \* the transport events it caused, in order
    data,                 \* the caller's tfminiplus_data_t after the call
    version,              \* the tfminiplus_version_t get_version returned
    mode0,                \* _communications_mode when the operation was called
    address0,             \* _address when the operation was called
    command,              \* packet codec: the command code given to send_command
    arguments,            \* packet codec: the argument bytes given to it
    packet,               \* packet codec: the packet handed to the transport
    flipped,              \* packet codec: that packet with one bit flipped
    garbage,              \* resynchronisation: the bytes put before the frame
    frame,                \* resynchronisation: the data frame put on the stream
    output,               \* resynchronisation: the caller's buffer after the call
    buffer,               \* checksum: the bytes given to the checksum routine
    count,                \* checksum: the size given to it
    checksum,             \* checksum: the value calculate_checksum returned
    overrun               \* checksum: its loop ran past the end of the bytes

facade_vars == <<communications_mode, address, rx, wire, op, arg, ret, log,
                 data, version, mode0, address0>>
checksum_vars == <<buffer, count, checksum, overrun>>
codec_vars == <<command, arguments, packet, flipped, checksum_vars>>
resync_vars == <<garbage, frame, output>>
vars == <<facade_vars, codec_vars, resync_vars>>

\* ------------------------------------------------------------ bounds and inputs

\* The most stray bytes before a frame.
MaxGarbage == 2
\* The most argument bytes of a packet built in the codec specification.
MaxArgs == 3

Modes == {TFMINI_PLUS_UART, TFMINI_PLUS_I2C}
AddressArgs == {16, 144}
FramerateArgs == {100, 1000}
BaudrateArgs == {9600, 115200}
FormatArgs == {1, 6}
DistanceArgs == {0, 258}
\* Values of Wire.endTransmission(): 0 success, 2 NACK on the address.
BusStatus == {0, 2}
\* What an uninitialised byte may hold.
UninitBytes == {0, 89}
NoData == << >>
NoVersion == << >>

\* The byte a device frame ends with: the additive checksum of all the bytes
\* before it ("sum"), the sum without the last of them ("short"), or a byte
\* that is neither ("bad").
FrameEnd(body, kind) ==
    LET all == SumBytes(body, Len(body))
        short == SumBytes(body, Len(body) - 1)
        other == IF U8(all + 1) = short THEN U8(all + 2) ELSE U8(all + 1)
    IN  IF kind = "sum" THEN all ELSE IF kind = "short" THEN short ELSE other

SumKinds == {"sum", "short", "bad"}

\* Candidate replies of the device to a command whose response has `size`
\* bytes: frames with a right or wrong length byte, each checksum kind,
\* cut short by one byte, or no reply at all.
DeviceFrame(l, c, p, k) ==
    Append(<<TFMINI_PLUS_FRAME_START, l, c>> \o p,
           FrameEnd(<<TFMINI_PLUS_FRAME_START, l, c>> \o p, k))

Replies(size, codes, payloads) ==
    LET right == { DeviceFrame(size, c, p, k) :
                     c \in codes, p \in payloads, k \in SumKinds }
        wrong == { DeviceFrame(size + 1, c, p, k) :
                     c \in codes, p \in payloads, k \in {"short"} }
    IN  right \cup wrong
        \cup { Take(f, size - 1) : f \in {g \in right : g[Len(g)] = FrameEnd(Take(g, size - 1), "sum")} }
        \cup { << >> }

\* Readings the device reports: distance, strength, temperature, each as
\* two bytes, low byte first.
Readings == { <<1, 0, 2, 0, 3, 0>>, <<2, 1, 0, 1, 89, 89>> }

\* Autonomous data frames: 0x59 0x59, a reading, and a right or wrong checksum.
DataFrames ==
    { Append(<<TFMINI_PLUS_RESPONSE_FRAME_HEADER, TFMINI_PLUS_RESPONSE_FRAME_HEADER>> \o r,
             FrameEnd(<<TFMINI_PLUS_RESPONSE_FRAME_HEADER, TFMINI_PLUS_RESPONSE_FRAME_HEADER>> \o r, k)) :
        r \in Readings, k \in {"sum", "bad"} }

\* Replies to a data request: data frames, frames laid out as command
\* responses, a frame cut short, or nothing.
DataReplies ==
    DataFrames
    \cup Replies(TFMINI_PLUS_PACK_LENGTH_DATA_RESPONSE, {TFMINI_PLUS_GET_DATA},
                 { <<1, 0, 2, 0, 3>> })

RECURSIVE SeqsUpTo(_, _)
SeqsUpTo(S, n) ==
    IF n = 0 THEN { << >> }
    ELSE LET shorter == SeqsUpTo(S, n - 1)
         IN  shorter \cup { Append(q, x) : q \in shorter, x \in S }

Garbages == SeqsUpTo({TFMINI_PLUS_RESPONSE_FRAME_HEADER, 255}, MaxGarbage)

\* Stray bytes ahead of a frame the device sends on its own.
Strays == { << >>, <<255>>, <<TFMINI_PLUS_RESPONSE_FRAME_HEADER>> }

\* What the transport does with one operation: whether the write comes up
\* short, the bus status, and the device's reply.  On the stream the device
\* replies only when the line is idle (nothing of an earlier frame is left
\* on it); otherwise the operation reads what is left.
Transport(replies) ==
    { [short |-> s, status |-> st, reply |-> rp] :
        s \in BOOLEAN,
        st \in (IF communications_mode = TFMINI_PLUS_I2C THEN BusStatus ELSE {0}),
        rp \in (IF communications_mode = TFMINI_PLUS_UART /\ rx \o wire # << >>
                THEN { << >> } ELSE replies) }

\* ------------------------------------------------------------ the facade

\* send_command as seen on the transport: the write of its packet.
send_command(cmd, args, size, io) ==
    WriteEv(communications_mode, command_packet(cmd, args, size),
            IF io.short THEN size - 1 ELSE size, io.status, size)

\* The stream when the read starts: a reply of the device to the command
\* just written follows whatever the stream already held.
wire_with(reply) ==
    IF communications_mode = TFMINI_PLUS_UART THEN wire \o reply ELSE wire

\* receive(response, sizeof(response)) against the device's reply.
receive_response(size, io) ==
    receive(communications_mode, io.reply, rx, wire_with(io.reply), size)

\* What every operation leaves behind for the caller and on the stream.
\* The stream is tracked while the facade is in serial mode only: once the
\* facade is in bus mode it no longer reads it.
Returns(name, a, result, events, r, new_mode, new_address) ==
    /\ op = "none"
    /\ communications_mode' = new_mode
    /\ address' = new_address
    /\ op' = name
    /\ arg' = a
    /\ ret' = result
    /\ log' = events
    /\ rx' = IF communications_mode' = TFMINI_PLUS_UART THEN r.rx ELSE << >>
    /\ wire' = IF communications_mode' = TFMINI_PLUS_UART THEN r.wire ELSE << >>
    /\ mode0' = communications_mode
    /\ address0' = address
    /\ UNCHANGED <<codec_vars, resync_vars>>

\* A function that flows off its end without a return statement returns
\* whatever the return register holds.
NoReturnValue == BOOLEAN

\* The body most operations share: send_command(...); do_i2c_wait();
\* receive(response, sizeof(response)).  The result of send_command is
\* dropped by every caller.
exchange(cmd, args, size, rsize, io) ==
    LET r == receive_response(rsize, io)
    IN  [r |-> r,
         events |-> <<send_command(cmd, args, size, io)>>
                    \o do_i2c_wait(communications_mode)
                    \o <<ReadEv(r, rsize, Len(r.output) = rsize)>>]

\* An operation that has no reading and no version to give.
NoResultObjects == data' = NoData /\ version' = NoVersion

begin_address(a) ==
    /\ \E garbage_result \in NoReturnValue :
         Returns("begin", <<a>>, garbage_result, << >>, [rx |-> rx, wire |-> wire],
                 TFMINI_PLUS_I2C, a % 128)
    /\ NoResultObjects

begin_stream ==
    /\ \E garbage_result \in NoReturnValue :
         Returns("begin", << >>, garbage_result, << >>, [rx |-> rx, wire |-> wire],
                 TFMINI_PLUS_UART, address)
    /\ NoResultObjects

\* if (receive(...) and response[3] == address) { result = true; _address = address; }
i2c_address_accepted(r, a) == r.result /\ At(r.output, 3) = a

\* A variant of stored_address with the assignment outside the if.
stored_address_unconditional(result, a, previous) == a

\* _address after set_i2c_address: assigned inside the if only.
stored_address(result, a, previous) == IF result THEN a ELSE previous

set_i2c_address(a) ==
    \E io \in Transport(Replies(TFMINI_PLUS_PACK_LENGTH_SET_I2C_ADDRESS,
                                {TFMINI_PLUS_SET_I2C_ADDRESS},
                                { <<x>> : x \in AddressArgs })) :
      LET x == exchange(TFMINI_PLUS_SET_I2C_ADDRESS, <<a>>,
                        TFMINI_PLUS_PACK_LENGTH_SET_I2C_ADDRESS,
                        TFMINI_PLUS_PACK_LENGTH_SET_I2C_ADDRESS, io)
          result == i2c_address_accepted(x.r, a)
      IN  /\ Returns("set_i2c_address", <<a>>, result, x.events, x.r,
                     communications_mode, stored_address(result, a, address))
          /\ NoResultObjects

\* The version struct is an uninitialised local, written only when the
\* response is valid and carries the get-version code.
get_version ==
    \E io \in Transport(Replies(TFMINI_PLUS_PACK_LENGTH_VERSION_RESPONSE,
                                {TFMINI_PLUS_GET_VERSION, TFMINI_PLUS_SAVE_SETTINGS},
                                { <<1, 2, 3>> })),
       uninit \in UninitBytes :
      LET x == exchange(TFMINI_PLUS_GET_VERSION, << >>,
                        TFMINI_PLUS_MINIMUM_PACKET_SIZE,
                        TFMINI_PLUS_PACK_LENGTH_VERSION_RESPONSE, io)
          decoded == /\ x.r.result
                     /\ At(x.r.output, TFMINI_PLUS_PACKET_POS_COMMAND) = TFMINI_PLUS_GET_VERSION
      IN  /\ Returns("get_version", << >>, FALSE, x.events, x.r,
                     communications_mode, address)
          /\ version' = IF decoded
                        THEN <<At(x.r.output, 3), At(x.r.output, 4), At(x.r.output, 5)>>
                        ELSE <<uninit, uninit, uninit>>
          /\ data' = NoData

\* argument[0] = framerate | 0xFF; argument[1] = framerate >> 8; (uint8_t)
framerate_argument(framerate) ==
    << U8((framerate \div 256) * 256 + 255), U8(Shr(framerate, 8)) >>

set_framerate(framerate) ==
    \E io \in Transport(Replies(TFMINI_PLUS_PACK_LENGTH_SET_FRAME_RATE,
                                {TFMINI_PLUS_SET_FRAME_RATE},
                                { <<U8(framerate), Shr(framerate, 8)>>,
                                  framerate_argument(framerate) })) :
      LET argument == framerate_argument(framerate)
          x == exchange(TFMINI_PLUS_SET_FRAME_RATE, argument,
                        TFMINI_PLUS_PACK_LENGTH_SET_FRAME_RATE,
                        TFMINI_PLUS_PACK_LENGTH_SET_FRAME_RATE, io)
          result == /\ x.r.result
                    /\ argument[1] = At(x.r.output, 3)
                    /\ argument[2] = At(x.r.output, 4)
      IN  /\ Returns("set_framerate", <<framerate>>, result, x.events, x.r,
                     communications_mode, address)
          /\ NoResultObjects

\* argument[0] = baudrate | 0xFF; argument[k] = baudrate >> 8k; (uint8_t)
baudrate_argument(baudrate) ==
    << U8((baudrate \div 256) * 256 + 255), U8(Shr(baudrate, 8)),
       U8(Shr(baudrate, 16)), U8(Shr(baudrate, 24)) >>

set_baudrate(baudrate) ==
    \E io \in Transport(Replies(TFMINI_PLUS_PACK_LENGTH_SET_BAUD_RATE,
                                {TFMINI_PLUS_SET_BAUD_RATE},
                                { <<U8(baudrate), U8(Shr(baudrate, 8)),
                                    U8(Shr(baudrate, 16)), U8(Shr(baudrate, 24))>>,
                                  baudrate_argument(baudrate) })) :
      LET argument == baudrate_argument(baudrate)
          x == exchange(TFMINI_PLUS_SET_BAUD_RATE, argument,
                        TFMINI_PLUS_PACK_LENGTH_SET_BAUD_RATE,
                        TFMINI_PLUS_PACK_LENGTH_SET_BAUD_RATE, io)
          result == /\ x.r.result
                    /\ argument[1] = At(x.r.output, 3)
                    /\ argument[2] = At(x.r.output, 4)
                    /\ argument[3] = At(x.r.output, 5)
                    /\ argument[4] = At(x.r.output, 6)
      IN  /\ Returns("set_baudrate", <<baudrate>>, result, x.events, x.r,
                     communications_mode, address)
          /\ NoResultObjects

\* The argument is the first byte of the enum object (its low byte).
set_output_format(format) ==
    \E io \in Transport(Replies(TFMINI_PLUS_PACK_LENGTH_SET_OUTPUT_FORMAT,
                                {TFMINI_PLUS_SET_OUTPUT_FORMAT},
                                { <<f>> : f \in FormatArgs })) :
      LET x == exchange(TFMINI_PLUS_SET_OUTPUT_FORMAT, <<U8(format)>>,
                        TFMINI_PLUS_PACK_LENGTH_SET_OUTPUT_FORMAT,
                        TFMINI_PLUS_PACK_LENGTH_SET_OUTPUT_FORMAT, io)
          result == x.r.result /\ format = At(x.r.output, 3)
      IN  /\ Returns("set_output_format", <<format>>, result, x.events, x.r,
                     communications_mode, address)
          /\ NoResultObjects

\* What the caller's tfminiplus_data_t holds before a read is asked for.
CallerData == <<0, 0, 0>>

\* A variant of read_data_response that takes the high byte of each field
\* first (response[3] + (response[2] << 8), and so on).
read_data_response_high_byte_first(reply, uninit) ==
    LET r == IF communications_mode = TFMINI_PLUS_UART
             THEN uart_receive_data(rx, wire_with(reply),
                                    TFMINI_PLUS_PACK_LENGTH_DATA_RESPONSE, uninit)
             ELSE receive(communications_mode, reply, rx, wire,
                          TFMINI_PLUS_PACK_LENGTH_DATA_RESPONSE)
        response == r.output
    IN  [r |-> r,
         events |-> <<ReadEv(r, TFMINI_PLUS_PACK_LENGTH_DATA_RESPONSE,
                             Len(r.output) = TFMINI_PLUS_PACK_LENGTH_DATA_RESPONSE)>>,
         data |-> IF r.result
                  THEN << (At(response, 3) + At(response, 2) * 256) % 65536,
                          (At(response, 5) + At(response, 4) * 256) % 65536,
                          (At(response, 7) + At(response, 6) * 256) % 65536 >>
                  ELSE CallerData]

\* read_data_response: the resynchronising read on the stream, receive() on
\* the bus; the three fields are decoded only when the read succeeded.
read_data_response(reply, uninit) ==
    LET r == IF communications_mode = TFMINI_PLUS_UART
             THEN uart_receive_data(rx, wire_with(reply),
                                    TFMINI_PLUS_PACK_LENGTH_DATA_RESPONSE, uninit)
             ELSE receive(communications_mode, reply, rx, wire,
                          TFMINI_PLUS_PACK_LENGTH_DATA_RESPONSE)
        response == r.output
    IN  [r |-> r,
         events |-> <<ReadEv(r, TFMINI_PLUS_PACK_LENGTH_DATA_RESPONSE,
                             Len(r.output) = TFMINI_PLUS_PACK_LENGTH_DATA_RESPONSE)>>,
         data |-> IF r.result
                  THEN << (At(response, 2) + At(response, 3) * 256) % 65536,
                          (At(response, 4) + At(response, 5) * 256) % 65536,
                          (At(response, 6) + At(response, 7) * 256) % 65536 >>
                  ELSE CallerData]

read_manual_reading ==
    \E io \in Transport(DataReplies), uninit \in UninitBytes :
      LET w == send_command(TFMINI_PLUS_TRIGGER_DETECTION, << >>,
                            TFMINI_PLUS_MINIMUM_PACKET_SIZE, io)
          x == read_data_response(io.reply, uninit)
      IN  /\ Returns("read_manual_reading", << >>, x.r.result,
                     <<w>> \o do_i2c_wait(communications_mode) \o x.events, x.r,
                     communications_mode, address)
          /\ data' = x.data
          /\ version' = NoVersion

\* The command is written in bus mode only; no wait before the read.
read_data(in_mm_format) ==
    \E io \in Transport(IF communications_mode = TFMINI_PLUS_I2C
                        THEN DataReplies ELSE { << >> }),
       uninit \in UninitBytes :
      LET w == IF communications_mode = TFMINI_PLUS_I2C
               THEN << send_command(TFMINI_PLUS_GET_DATA,
                                    << IF in_mm_format THEN 1 ELSE 0 >>,
                                    TFMINI_PLUS_PACK_LENGTH_GET_DATA, io) >>
               ELSE << >>
          x == read_data_response(io.reply, uninit)
      IN  /\ Returns("read_data", << IF in_mm_format THEN 1 ELSE 0 >>, x.r.result,
                     w \o x.events, x.r,
                     communications_mode, address)
          /\ data' = x.data
          /\ version' = NoVersion

\* The command is written and nothing is read; the function has no return
\* statement.  A reply of the device stays on the stream.
set_io_mode(mode, critical_distance, hysteresis) ==
    \E io \in Transport({ << >> }), garbage_result \in NoReturnValue :
      LET args == << U8(mode), U8(critical_distance), U8(Shr(critical_distance, 8)),
                     U8(hysteresis), U8(Shr(hysteresis, 8)) >>
          w == send_command(TFMINI_PLUS_SET_IO_MODE, args,
                            TFMINI_PLUS_PACK_LENGTH_SET_IO_MODE, io)
      IN  /\ Returns("set_io_mode", <<mode, critical_distance, hysteresis>>,
                     garbage_result, <<w>>, [rx |-> rx, wire |-> wire],
                     communications_mode, address)
          /\ NoResultObjects

\* A variant of settings_saved without the test of the status byte.
settings_saved_any_status(r) == r.result

\* if (receive(...)) { if (response[3] == 0) result = true; }
settings_saved(r) == r.result /\ At(r.output, 3) = 0

SaveReplies(codes) ==
    Replies(TFMINI_PLUS_PACK_LENGTH_SAVE_SETTINGS_RESPONSE, codes, { <<0>>, <<1>> })

save_settings ==
    \E io \in Transport(SaveReplies({TFMINI_PLUS_SAVE_SETTINGS})) :
      LET x == exchange(TFMINI_PLUS_SAVE_SETTINGS, << >>,
                        TFMINI_PLUS_MINIMUM_PACKET_SIZE,
                        TFMINI_PLUS_PACK_LENGTH_SAVE_SETTINGS_RESPONSE, io)
      IN  /\ Returns("save_settings", << >>, settings_saved(x.r), x.events, x.r,
                     communications_mode, address)
          /\ NoResultObjects

\* The interface command is written, then save_settings() runs, and the
\* mode is taken over when it returned true.  No return statement.
set_communication_interface(mode) ==
    \E io1 \in Transport({ << >> }),
       io \in Transport(SaveReplies({TFMINI_PLUS_SAVE_SETTINGS,
                                     TFMINI_PLUS_SET_COMMUNICATION_INTERFACE})),
       garbage_result \in NoReturnValue :
      LET w == send_command(TFMINI_PLUS_SET_COMMUNICATION_INTERFACE, <<U8(mode)>>,
                            TFMINI_PLUS_PACK_LENGTH_SET_COMMUNICATION_INTERFACE, io1)
          x == exchange(TFMINI_PLUS_SAVE_SETTINGS, << >>,
                        TFMINI_PLUS_MINIMUM_PACKET_SIZE,
                        TFMINI_PLUS_PACK_LENGTH_SAVE_SETTINGS_RESPONSE, io)
      IN  /\ Returns("set_communication_interface", <<mode>>, garbage_result,
                     <<w>> \o x.events, x.r,
                     IF settings_saved(x.r) THEN mode ELSE communications_mode,
                     address)
          /\ NoResultObjects

enable_output(output_enabled) ==
    \E io \in Transport(Replies(TFMINI_PLUS_PACK_LENGTH_ENABLE_DATA_OUTPUT,
                                {TFMINI_PLUS_ENABLE_DATA_OUTPUT}, { <<0>>, <<1>> })) :
      LET flag == IF output_enabled THEN 1 ELSE 0
          x == exchange(TFMINI_PLUS_ENABLE_DATA_OUTPUT, <<flag>>,
                        TFMINI_PLUS_PACK_LENGTH_ENABLE_DATA_OUTPUT,
                        TFMINI_PLUS_PACK_LENGTH_ENABLE_DATA_OUTPUT, io)
          result == x.r.result /\ flag = At(x.r.output, 3)
      IN  /\ Returns("enable_output", <<flag>>, result, x.events, x.r,
                     communications_mode, address)
          /\ NoResultObjects

reset_system ==
    \E io \in Transport(Replies(TFMINI_PLUS_PACK_LENGTH_SYSTEM_RESET_RESPONSE,
                                {TFMINI_PLUS_SYSTEM_RESET}, { <<0>>, <<1>> })) :
      LET x == exchange(TFMINI_PLUS_SYSTEM_RESET, << >>,
                        TFMINI_PLUS_MINIMUM_PACKET_SIZE,
                        TFMINI_PLUS_PACK_LENGTH_SYSTEM_RESET_RESPONSE, io)
          result == x.r.result /\ At(x.r.output, 3) = 0
      IN  /\ Returns("reset_system", << >>, result, x.events, x.r,
                     communications_mode, address)
          /\ NoResultObjects

factory_reset ==
    \E io \in Transport(Replies(TFMINI_PLUS_PACK_LENGTH_RESTORE_FACTORY_SETTINGS_RESPONSE,
                                {TFMINI_PLUS_RESTORE_FACTORY_SETTINGS}, { <<0>>, <<1>> })) :
      LET x == exchange(TFMINI_PLUS_RESTORE_FACTORY_SETTINGS, << >>,
                        TFMINI_PLUS_MINIMUM_PACKET_SIZE,
                        TFMINI_PLUS_PACK_LENGTH_RESTORE_FACTORY_SETTINGS_RESPONSE, io)
          result == x.r.result /\ At(x.r.output, 3) = 0
      IN  /\ Returns("factory_reset", << >>, result, x.events, x.r,
                     communications_mode, address)
          /\ NoResultObjects

\* ------------------------------------------------------------ the device's stream

\* Between two calls, in serial mode, the device puts a data frame on the
\* idle stream on its own, possibly after stray bytes.
DeviceTransmit(stray, f) ==
    /\ op = "none"
    /\ communications_mode = TFMINI_PLUS_UART
    /\ rx = << >> /\ wire = << >>
    /\ wire' = wire \o stray \o f
    /\ UNCHANGED <<communications_mode, address, rx, op, arg, ret, log, data,
                   version, mode0, address0, codec_vars, resync_vars>>

\* A byte on the wire reaches the receive buffer.
Arrive ==
    /\ op = "none"
    /\ wire # << >>
    /\ rx' = Append(rx, Head(wire))
    /\ wire' = Tail(wire)
    /\ UNCHANGED <<communications_mode, address, op, arg, ret, log, data,
                   version, mode0, address0, codec_vars, resync_vars>>

\* The call has returned and the caller has taken its results: the facade
\* is idle again, with the mode and the address the call left.
Return ==
    /\ op # "none"
    /\ op' = "none"
    /\ arg' = << >>
    /\ ret' = FALSE
    /\ log' = << >>
    /\ data' = NoData
    /\ version' = NoVersion
    /\ mode0' = communications_mode
    /\ address0' = address
    /\ UNCHANGED <<communications_mode, address, rx, wire, codec_vars, resync_vars>>

\* ------------------------------------------------------------ specification

ChecksumUnused ==
    buffer = << >> /\ count = 0 /\ checksum = 0 /\ overrun = FALSE

CodecUnused ==
    /\ command = 0 /\ arguments = << >> /\ packet = << >> /\ flipped = << >>
    /\ ChecksumUnused

ResyncUnused ==
    garbage = << >> /\ frame = << >> /\ output = << >>

\* A facade on which begin() has been called; nothing on the stream.
Init ==
    /\ communications_mode \in Modes
    /\ address \in { a % 128 : a \in AddressArgs }
    /\ rx = << >>
    /\ wire = << >>
    /\ op = "none"
    /\ arg = << >>
    /\ ret = FALSE
    /\ log = << >>
    /\ data = NoData
    /\ version = NoVersion
    /\ mode0 = communications_mode
    /\ address0 = address
    /\ CodecUnused
    /\ ResyncUnused

Next ==
    \/ \E a \in AddressArgs : begin_address(a)
    \/ begin_stream
    \/ \E a \in AddressArgs : set_i2c_address(a)
    \/ get_version
    \/ \E f \in FramerateArgs : set_framerate(f)
    \/ \E b \in BaudrateArgs : set_baudrate(b)
    \/ \E f \in FormatArgs : set_output_format(f)
    \/ read_manual_reading
    \/ \E m \in BOOLEAN : read_data(m)
    \/ \E d \in DistanceArgs : set_io_mode(0, d, 0)
    \/ \E m \in Modes : set_communication_interface(m)
    \/ \E e \in BOOLEAN : enable_output(e)
    \/ save_settings
    \/ reset_system
    \/ factory_reset
    \/ \E g \in Strays, f \in DataFrames : DeviceTransmit(g, f)
    \/ Arrive
    \/ Return

Spec == Init /\ [][Next]_vars

\* ------------------------------------------------------------ the packet codec alone

\* x with bit b (0..7) inverted.
FlipBit(x, b) ==
    IF (x \div (2 ^ b)) % 2 = 1 THEN x - 2 ^ b ELSE x + 2 ^ b

Commands ==
    { TFMINI_PLUS_GET_DATA, TFMINI_PLUS_GET_VERSION, TFMINI_PLUS_SYSTEM_RESET,
      TFMINI_PLUS_SET_FRAME_RATE, TFMINI_PLUS_TRIGGER_DETECTION,
      TFMINI_PLUS_SET_OUTPUT_FORMAT, TFMINI_PLUS_SET_BAUD_RATE,
      TFMINI_PLUS_ENABLE_DATA_OUTPUT, TFMINI_PLUS_SET_COMMUNICATION_INTERFACE,
      TFMINI_PLUS_SET_I2C_ADDRESS, TFMINI_PLUS_SET_IO_MODE,
      TFMINI_PLUS_RESTORE_FACTORY_SETTINGS, TFMINI_PLUS_SAVE_SETTINGS }

ArgumentBytes == {0, 1, 255}

\* An idle facade in serial mode, for the specifications that exercise one
\* routine on its own.
IdleFacade ==
    /\ communications_mode = TFMINI_PLUS_UART
    /\ address = 16
    /\ op = "none"
    /\ arg = << >>
    /\ ret = FALSE
    /\ log = << >>
    /\ data = NoData
    /\ version = NoVersion
    /\ mode0 = communications_mode
    /\ address0 = address

CodecInit ==
    /\ IdleFacade
    /\ rx = << >>
    /\ wire = << >>
    /\ CodecUnused
    /\ ResyncUnused

\* send_command(c, args, 4 + number of arguments) builds its packet.
CodecSendCommand(c, args) ==
    /\ packet = << >>
    /\ command' = c
    /\ arguments' = args
    /\ packet' = command_packet(c, args, TFMINI_PLUS_MINIMUM_PACKET_SIZE + Len(args))
    /\ UNCHANGED <<flipped, checksum_vars, facade_vars, resync_vars>>

\* One bit of the packet is inverted on the way.
CodecFlipBit(i, b) ==
    /\ packet # << >>
    /\ flipped = << >>
    /\ i < Len(packet)
    /\ flipped' = [packet EXCEPT ![i + 1] = FlipBit(@, b)]
    /\ UNCHANGED <<command, arguments, packet, checksum_vars, facade_vars, resync_vars>>

CodecNext ==
    \/ \E c \in Commands, args \in SeqsUpTo(ArgumentBytes, MaxArgs) :
         CodecSendCommand(c, args)
    \/ \E i \in 0..(TFMINI_PLUS_MINIMUM_PACKET_SIZE + MaxArgs - 1), b \in 0..7 :
         CodecFlipBit(i, b)

SpecCodec == CodecInit /\ [][CodecNext]_vars

\* ------------------------------------------------------------ resynchronisation alone

\* Data frames with the right checksum.
ValidDataFrames ==
    { f \in DataFrames : f[Len(f)] = FrameEnd(Take(f, Len(f) - 1), "sum") }

\* The stream carries stray bytes and then one valid data frame; none of it
\* has reached the receive buffer yet.
ResyncInit ==
    /\ IdleFacade
    /\ garbage \in Garbages
    /\ frame \in ValidDataFrames
    /\ rx = << >>
    /\ wire = garbage \o frame
    /\ output = << >>
    /\ CodecUnused

\* uart_receive_data(response, TFMINI_PLUS_PACK_LENGTH_DATA_RESPONSE) is
\* called with whatever has arrived so far in the receive buffer.
ResyncCall(uninit) ==
    /\ op = "none"
    /\ LET r == uart_receive_data(rx, wire, TFMINI_PLUS_PACK_LENGTH_DATA_RESPONSE, uninit)
       IN  /\ op' = "uart_receive_data"
           /\ ret' = r.result
           /\ output' = r.output
           /\ rx' = r.rx
           /\ wire' = r.wire
    /\ UNCHANGED <<communications_mode, address, arg, log, data, version,
                   mode0, address0, garbage, frame, codec_vars>>

ResyncNext ==
    \/ Arrive
    \/ \E uninit \in UninitBytes : ResyncCall(uninit)

SpecResync == ResyncInit /\ [][ResyncNext]_vars

\* ------------------------------------------------------------ a data read on the stream

\* read_data is called, in serial mode, on a stream that carries stray bytes
\* and then one valid data frame, at any point of their arrival.
StreamReadNext ==
    \/ Arrive
    \/ \E m \in BOOLEAN : read_data(m)

SpecStreamRead == ResyncInit /\ [][StreamReadNext]_vars

\* ------------------------------------------------------------ the checksum routines alone

\* What a sum may come to when the loop has read past the end of the bytes
\* (undefined behaviour): any byte.
OverrunSums == 0..255

\* The checksum routines are called on a byte sequence with some size.
ChecksumInit ==
    /\ IdleFacade
    /\ rx = << >>
    /\ wire = << >>
    /\ command = 0 /\ arguments = << >> /\ packet = << >> /\ flipped = << >>
    /\ buffer \in SeqsUpTo(ArgumentBytes, MaxArgs)
    /\ count = 0
    /\ checksum = 0
    /\ overrun = FALSE
    /\ ResyncUnused

\* calculate_checksum(buffer, size)
ChecksumCalculate(size, past_end) ==
    /\ op = "none"
    /\ op' = "calculate_checksum"
    /\ count' = size
    /\ overrun' = (checksum_loop_bound(size) > Len(buffer))
    /\ checksum' = IF overrun' THEN past_end ELSE calculate_checksum(buffer, size)
    /\ UNCHANGED <<communications_mode, address, rx, wire, arg, ret, log, data,
                   version, mode0, address0, buffer, command, arguments, packet,
                   flipped, resync_vars>>

\* compare_checksum(buffer, size), which calls calculate_checksum(buffer, size - 1)
ChecksumCompare(size, past_end) ==
    /\ op = "none"
    /\ op' = "compare_checksum"
    /\ count' = size
    /\ overrun' = (checksum_loop_bound(size - 1) > Len(buffer))
    /\ checksum' = IF overrun' THEN past_end ELSE calculate_checksum(buffer, size - 1)
    /\ ret' = IF overrun' THEN past_end = At(buffer, size - 1)
              ELSE compare_checksum(buffer, size)
    /\ UNCHANGED <<communications_mode, address, rx, wire, arg, log, data,
                   version, mode0, address0, buffer, command, arguments, packet,
                   flipped, resync_vars>>

ChecksumNext ==
    \/ \E size \in 0..Len(buffer), past_end \in OverrunSums :
         ChecksumCalculate(size, past_end)
    \/ \E size \in 1..Len(buffer), past_end \in OverrunSums :
         ChecksumCompare(size, past_end)

SpecChecksum == ChecksumInit /\ [][ChecksumNext]_vars

\* ------------------------------------------------------------ claims

\* The last event of the last operation (its read, when it read).
LastEv == log[Len(log)]

\* The additive checksum of a whole packet: its last byte is the sum, modulo
\* 256, of all the bytes before it.
AdditiveChecksumOk(p) == p[Len(p)] = SumBytes(p, Len(p) - 1)

\* C1 (as claimed): whatever stray bytes precede a valid data frame, a call
\* of uart_receive_data made when the stray bytes and the whole frame are in
\* the receive buffer returns true with the buffer equal to that frame, and
\* has read the stream up to the frame's last byte and no further.
C1_Resynchronization ==
    [][(op = "none" /\ rx = garbage \o frame /\ op' = "uart_receive_data")
          => (ret' = TRUE /\ output' = frame /\ rx' \o wire' = << >>)]_vars

\* C2 (as claimed): a data read whose buffer holds, whole, a packet the
\* device sent and whose last byte is not the additive checksum of the bytes
\* before it returns false; and a failed data read leaves the mode and the
\* address as they were.
C2_ChecksumGate ==
    op \in {"read_data", "read_manual_reading"} =>
        /\ (LastEv.ok /\ LastEv.bytes \in DataReplies
               /\ ~AdditiveChecksumOk(LastEv.bytes)) => ret = FALSE
        /\ ret = FALSE => (communications_mode = mode0 /\ address = address0)

\* Every write of the operation that a read follows has a delay between
\* itself and that read.
DelayBetweenWriteAndRead ==
    \A i \in 1..Len(log) : \A j \in 1..Len(log) :
        (i < j /\ log[i].ev = "write" /\ log[j].ev = "read")
            => \E k \in 1..Len(log) : i < k /\ k < j /\ log[k].ev = "delay"

NoDelay == \A i \in 1..Len(log) : log[i].ev # "delay"

\* C3 (as claimed): in bus mode every operation that writes and then reads,
\* read_data included, waits between the write and the read; in serial mode
\* no operation waits.
C3_SettleDelay_AsClaimed ==
    op # "none" =>
        /\ mode0 = TFMINI_PLUS_I2C => DelayBetweenWriteAndRead
        /\ mode0 = TFMINI_PLUS_UART => NoDelay

\* C3 (amended): in bus mode every operation other than read_data that
\* writes and then reads waits between the write and the read; in serial
\* mode no operation waits.
C3_SettleDelay ==
    op # "none" =>
        /\ (mode0 = TFMINI_PLUS_I2C /\ op # "read_data") => DelayBetweenWriteAndRead
        /\ mode0 = TFMINI_PLUS_UART => NoDelay

C3_Witness ==
    /\ op = "read_manual_reading"
    /\ mode0 = TFMINI_PLUS_I2C
    /\ Len(log) = 3
    /\ log[1].ev = "write" /\ log[2].ev = "delay" /\ log[3].ev = "read"

\* C4 (as claimed): when a command write fails nothing follows it on the
\* transport (no delay, no read), and the operation returns false.
C4_TransmitFailureAborts ==
    (op # "none" /\ op # "get_version") =>
        \A i \in 1..Len(log) :
            (log[i].ev = "write" /\ ~log[i].ok) => (Len(log) = i /\ ret = FALSE)

\* C5 (as claimed): set_framerate(f) writes a packet with header 0x5A, command
\* code 3 and the argument bytes f mod 256, f div 256, and returns true when a
\* valid response echoes those two bytes; set_baudrate(b) writes the four
\* bytes of b, low byte first.
C5_LittleEndianArguments ==
    /\ op = "set_framerate" =>
         LET p == log[1].bytes
             f == arg[1]
             e == LastEv
         IN  /\ At(p, 0) = TFMINI_PLUS_FRAME_START
             /\ At(p, 2) = TFMINI_PLUS_SET_FRAME_RATE
             /\ At(p, 3) = f % 256
             /\ At(p, 4) = f \div 256
             /\ (e.res /\ At(e.bytes, 3) = f % 256 /\ At(e.bytes, 4) = f \div 256)
                    => ret = TRUE
    /\ op = "set_baudrate" =>
         LET p == log[1].bytes
             b == arg[1]
         IN  /\ At(p, 3) = b % 256
             /\ At(p, 4) = (b \div 256) % 256
             /\ At(p, 5) = (b \div 65536) % 256
             /\ At(p, 6) = (b \div 16777216) % 256

\* C6 (as claimed): a packet that passes compare_checksum no longer passes it
\* after any one of its bits is inverted.
C6_SingleBitFlipDetected ==
    (flipped # << >> /\ compare_checksum(packet, Len(packet)))
        => ~compare_checksum(flipped, Len(flipped))

\* C7: the packet send_command builds passes compare_checksum with its own
\* total size, whatever the command code and the argument bytes.
C7_EncodeVerifyRoundTrip ==
    packet # << >> => compare_checksum(packet, Len(packet))

C7_Witness ==
    /\ packet # << >>
    /\ Len(packet) = TFMINI_PLUS_MINIMUM_PACKET_SIZE + 2
    /\ arguments = <<1, 255>>

\* A response that was read whole, carries the expected size in its length
\* byte, and ends in the additive checksum of the bytes before it.
ValidResponse(e) ==
    /\ e.ok
    /\ Len(e.bytes) = e.n
    /\ At(e.bytes, TFMINI_PLUS_PACKET_POS_LENGTH) = e.n
    /\ AdditiveChecksumOk(e.bytes)

\* C8 (as claimed): in bus mode receive returns false for a fully read
\* response whose length byte differs from the expected size, and it returns
\* true only for a response that was read whole, whose length byte is the
\* expected size and whose last byte is the additive checksum of the bytes
\* before it.
C8_LengthEnforcement ==
    (op # "none" /\ mode0 = TFMINI_PLUS_I2C) =>
        \A i \in 1..Len(log) :
            log[i].ev = "read" =>
                LET e == log[i]
                IN  /\ (e.ok /\ At(e.bytes, TFMINI_PLUS_PACKET_POS_LENGTH) # e.n) => ~e.res
                    /\ e.res => ValidResponse(e)

\* C9 (as claimed): set_i2c_address(a) sets the address to a and returns true
\* when the response was read whole, carries the expected length, ends in the
\* additive checksum of the bytes before it and echoes a at offset 3;
\* otherwise the address is the one before the call and the operation returns
\* false.
C9_SetAddressGated ==
    op = "set_i2c_address" =>
        LET e == LastEv
            a == arg[1]
            acknowledged == ValidResponse(e) /\ At(e.bytes, 3) = a
        IN  IF acknowledged THEN address = a /\ ret = TRUE
            ELSE address = address0 /\ ret = FALSE

\* C10: set_communication_interface(m) writes the set-communication-interface
\* command with argument m, then runs the save-settings exchange, and the
\* facade's mode is m when that exchange ended with a valid response (read
\* whole, right length byte, additive checksum) whose status byte is 0;
\* otherwise the mode is the one before the call.
C10_InterfaceSwitchGated ==
    op = "set_communication_interface" =>
        LET m == arg[1]
            e == LastEv
            saved == ValidResponse(e) /\ At(e.bytes, 3) = 0
        IN  /\ log[1].ev = "write"
            /\ At(log[1].bytes, TFMINI_PLUS_PACKET_POS_COMMAND)
                 = TFMINI_PLUS_SET_COMMUNICATION_INTERFACE
            /\ At(log[1].bytes, 3) = m
            /\ log[2].ev = "write"
            /\ At(log[2].bytes, TFMINI_PLUS_PACKET_POS_COMMAND) = TFMINI_PLUS_SAVE_SETTINGS
            /\ e.ev = "read"
            /\ communications_mode = IF saved THEN m ELSE mode0

C10_Witness ==
    /\ op = "set_communication_interface"
    /\ communications_mode # mode0
    /\ communications_mode = arg[1]
    /\ ValidResponse(LastEv)

\* The operations of the facade that exchange packets with the device.
FacadeOperations ==
    { "get_version", "set_framerate", "set_baudrate", "set_output_format",
      "set_io_mode", "set_communication_interface", "set_i2c_address",
      "enable_output", "save_settings", "reset_system", "factory_reset",
      "read_manual_reading", "read_data" }

Writes == { i \in 1..Len(log) : log[i].ev = "write" }
Reads == { i \in 1..Len(log) : log[i].ev = "read" }

\* C11 (as claimed): every operation of the facade makes exactly one write
\* and exactly one read, the write before the read.
C11_OneExchangePerOperation ==
    op \in FacadeOperations =>
        /\ Cardinality(Writes) = 1
        /\ Cardinality(Reads) = 1
        /\ \A i \in Writes : \A j \in Reads : i < j

\* distance, strength and temperature of a data packet: offsets 2-3, 4-5 and
\* 6-7, low byte first.
Fields(p) ==
    << At(p, 2) + 256 * At(p, 3), At(p, 4) + 256 * At(p, 5), At(p, 6) + 256 * At(p, 7) >>

\* C12: in serial mode, when the stream carries one stray byte other than
\* 0x59 and then a valid data packet p, and the stray byte and the header of
\* p are in the receive buffer, read_data returns true with distance,
\* strength and temperature decoded from p.
C12_StrayByteThenPacket ==
    [][(/\ op = "none"
        /\ op' = "read_data"
        /\ Len(garbage) = 1
        /\ garbage[1] # TFMINI_PLUS_RESPONSE_FRAME_HEADER
        /\ Len(rx) >= 3)
          => (ret' = TRUE /\ data' = Fields(frame))]_vars

C12_Witness ==
    /\ op = "read_data"
    /\ garbage = <<255>>
    /\ ret = TRUE
    /\ LastEv.bytes = frame
    /\ data = Fields(frame)
    /\ data # CallerData

\* The exchange of the operation failed: a write did not go through, a read
\* came up short, a response read whole carries another length than the size
\* asked for, or its last byte is not the additive checksum of the bytes
\* before it.  (A data frame read from the stream has no length byte.)
ExchangeFailed ==
    \/ \E i \in Writes : ~log[i].ok
    \/ \E j \in Reads :
         \/ ~log[j].ok
         \/ /\ ~(mode0 = TFMINI_PLUS_UART /\ op \in {"read_data", "read_manual_reading"})
            /\ At(log[j].bytes, TFMINI_PLUS_PACKET_POS_LENGTH) # log[j].n
         \/ ~AdditiveChecksumOk(log[j].bytes)

\* C13 (as claimed): an operation whose exchange failed gives the caller a
\* definite failure indication: false from the boolean operations, and no
\* version from get_version.
C13_FailuresReported ==
    (op \in FacadeOperations /\ ExchangeFailed) =>
        IF op = "get_version" THEN version = NoVersion ELSE ret = FALSE

\* C14: the mode differs from the mode before the call only after begin and
\* set_communication_interface, and the address only after begin and
\* set_i2c_address; a set_i2c_address that returned false left the address
\* as it was, and a set_communication_interface whose save-settings exchange
\* did not end with a valid response of status 0 left the mode as it was.
C14_PersistentStateFramed ==
    /\ op \notin {"begin", "set_communication_interface"} => communications_mode = mode0
    /\ op \notin {"begin", "set_i2c_address"} => address = address0
    /\ (op = "set_i2c_address" /\ ret = FALSE) => address = address0
    /\ (op = "set_communication_interface"
          /\ ~(ValidResponse(LastEv) /\ At(LastEv.bytes, 3) = 0))
         => communications_mode = mode0

C14_Witness ==
    /\ op = "set_i2c_address"
    /\ ret = FALSE
    /\ LastEv.ok
    /\ arg[1] # address0
    /\ address = address0
    /\ communications_mode = mode0

\* C15 (as claimed): what send returned for a write is true exactly when the
\* transport wrote every byte and, on the bus, the transaction was
\* acknowledged.
C15_TransmitResultTruthful ==
    \A i \in Writes : log[i].res = log[i].ok

\* C16 (as claimed): the last byte of the packet send_command hands to the
\* transport is the sum, modulo 256, of all the bytes before it.
C16_OutgoingChecksumCoverage ==
    packet # << >> => AdditiveChecksumOk(packet)

\* C20: the packet send_command hands to the transport has 4 + k bytes for k
\* argument bytes: 0x5A, the total size, the command code, then the argument
\* bytes in their order, then one more byte.
C20_CommandPacketLayout ==
    packet # << >> =>
        LET n == Len(arguments) + TFMINI_PLUS_MINIMUM_PACKET_SIZE
        IN  /\ Len(packet) = n
            /\ At(packet, 0) = TFMINI_PLUS_FRAME_START
            /\ At(packet, TFMINI_PLUS_PACKET_POS_LENGTH) = n
            /\ At(packet, TFMINI_PLUS_PACKET_POS_COMMAND) = command
            /\ \A i \in 1..Len(arguments) : At(packet, 2 + i) = arguments[i]

C20_Witness ==
    /\ packet # << >>
    /\ command = TFMINI_PLUS_SET_IO_MODE
    /\ arguments = <<255, 0, 1>>
    /\ Len(packet) = 7

\* C17 (as claimed): calculate_checksum(data, count) returns the sum, modulo
\* 256, of the first count bytes (0 for count = 0) and reads no byte past
\* them; compare_checksum(packet, n) returns whether the sum of the first
\* n-1 bytes equals packet[n-1].
C17_ChecksumComputation ==
    /\ op = "calculate_checksum" =>
         (checksum = SumBytes(buffer, count) /\ ~overrun)
    /\ op = "compare_checksum" =>
         (ret = (SumBytes(buffer, count - 1) = At(buffer, count - 1)))

\* Two consecutive 0x59 bytes occur in the bytes.
HasHeader(bytes) ==
    \E i \in 1..(Len(bytes) - 1) :
        /\ bytes[i] = TFMINI_PLUS_RESPONSE_FRAME_HEADER
        /\ bytes[i + 1] = TFMINI_PLUS_RESPONSE_FRAME_HEADER

\* C18 (as claimed): a call of uart_receive_data made when the bytes available
\* on the stream hold no two consecutive 0x59 returns false and reads nothing
\* of what arrives afterwards.
C18_DesyncReported ==
    [][(op = "none" /\ op' = "uart_receive_data" /\ ~HasHeader(rx))
          => (ret' = FALSE /\ wire' = wire)]_vars

\* C19 (as claimed): the address of the device held by the facade is a 7-bit
\* value in every state.
C19_AddressIsSevenBit ==
    address \in 0..127

====
